---- MODULE Spec2Model ----
(***************************************************************************)
(* The HiPack encoder of serde-hipack (src/ser.rs, src/error.rs): the      *)
(* Serializer, its two Formatters, the KeySerializer and the output sink.  *)
(*                                                                         *)
(* One encode is a recursive descent. The call stack is explicit: `stack`  *)
(* holds one frame per visit_seq / visit_map activation that took the      *)
(* start_compound path, `pending` is the value whose serialize() call is   *)
(* in flight. The values are produced by the caller's Serialize            *)
(* implementation and its SeqVisitor / MapVisitor, an external             *)
(* collaborator: every item they hand over is a choice of the environment. *)
(* The sink is any std::io::Write: each write call is answered by the      *)
(* environment (accepted, accepted short, failed).                         *)
(***************************************************************************)
EXTENDS Integers, Sequences, FiniteSets, TLC

\* ------------------------------------------------------------------ bounds
\* values handed over by all the visitors of one encode
MaxNodes == 3
\* containers nested inside each other
MaxDepth == 2
\* length of a string handed to visit_str
MaxStrLen == 2
\* times the sink answers write() with Ok(0) in one encode
MaxShort == 1

\* ------------------------------------------------------------------- bytes
TAB == 9
LF == 10
CR == 13
SPACE == 32
QUOTE == 34
COMMA == 44
DOT == 46
COLON == 58
LBRACKET == 91
BACKSLASH == 92
RBRACKET == 93
LBRACE == 123
RBRACE == 125

TrueText == <<84, 114, 117, 101>>
FalseText == <<70, 97, 108, 115, 101>>
NaNText == <<78, 97, 78>>
InfText == <<105, 110, 102>>
MINUS == 45

Max(a, b) == IF a > b THEN a ELSE b

RECURSIVE Flatten(_)
Flatten(ss) == IF ss = <<>> THEN <<>> ELSE Head(ss) \o Flatten(Tail(ss))

\* ------------------------------------------------------------ the sink
\* One call the engine makes on the writer. chk: the call's result goes
\* through try! / map_err(From::from), so an Err ends the handler.
WriteAll(buf, tag) == [call |-> "write_all", buf |-> buf, chk |-> TRUE, tag |-> tag]
WriteOnce(buf, tag) == [call |-> "write", buf |-> buf, chk |-> TRUE, tag |-> tag]
WriteFmt(buf, tag) == [call |-> "write_fmt", buf |-> buf, chk |-> TRUE, tag |-> tag]

\* Byte counts the sink can have taken when the call returns Ok: write_all
\* and write! return Ok only with the whole buffer written; write returns
\* Ok(n) for any n the sink chose.
OkLens(r) == IF r.call = "write" THEN 0..Len(r.buf) ELSE {Len(r.buf)}

\* Byte counts the sink can have taken when the call returns Err: write
\* takes nothing; write_all and write! fail on some inner write, after a
\* proper prefix (an empty buffer is never written, so it cannot fail).
ErrLens(r) == IF r.call = "write" THEN {0} ELSE 0..(Len(r.buf) - 1)

\* Every way the sink can answer the calls reqs, made in order.
\*   acc: the bytes taken from each call made;  ferr: the first call that
\*   returned Err (0: none);  err: a checked call returned Err, the handler
\*   returned Error::IoError (error.rs, From<io::Error>).
RECURSIVE SinkRuns(_)
SinkRuns(reqs) ==
    IF reqs = <<>> THEN {[acc |-> <<>>, ferr |-> 0, err |-> FALSE]}
    ELSE LET r == Head(reqs)
             rest == SinkRuns(Tail(reqs))
             Shift(t) == IF t.ferr = 0 THEN 0 ELSE t.ferr + 1
             oks == {[acc |-> <<n>> \o t.acc, ferr |-> Shift(t), err |-> t.err] :
                        n \in OkLens(r), t \in rest}
             errs == IF r.chk
                     THEN {[acc |-> <<n>>, ferr |-> 1, err |-> TRUE] : n \in ErrLens(r)}
                     ELSE {[acc |-> <<n>> \o t.acc, ferr |-> 1, err |-> t.err] :
                              n \in ErrLens(r), t \in rest}
         IN oks \cup errs

Accepted(reqs, run) ==
    Flatten([i \in 1..Len(run.acc) |-> SubSeq(reqs[i].buf, 1, run.acc[i])])
Offered(reqs, run) ==
    Flatten([i \in 1..Len(run.acc) |-> reqs[i].buf])
\* calls answered Ok with fewer bytes than offered
ShortsIn(reqs, run) ==
    Cardinality({i \in 1..Len(run.acc) :
        /\ run.acc[i] < Len(reqs[i].buf)
        /\ (run.ferr = 0 \/ i # run.ferr)})
\* structural punctuation among the accepted bytes
MarksIn(reqs, run) ==
    Flatten([i \in 1..Len(run.acc) |->
        IF reqs[i].tag \in {"open", "close"}
        THEN SubSeq(reqs[i].buf, 1, IF run.acc[i] >= 1 THEN 1 ELSE 0)
        ELSE IF reqs[i].tag = "empty"
        THEN SubSeq(reqs[i].buf, 1, run.acc[i])
        ELSE <<>>])
CommasIn(reqs, run) ==
    Cardinality({i \in 1..Len(run.acc) :
        reqs[i].tag = "sep" /\ COMMA \in {reqs[i].buf[j] : j \in 1..run.acc[i]}})


\* ------------------------------------------------------------ formatters
\* indent(writer, indent): one write_all(b"  ") per level.
Indent(n) == [i \in 1..n |-> WriteAll(<<SPACE, SPACE>>, "indent")]

\* A formatter call: the writes it makes, the indentation it leaves and
\* whether `self.indent -= 1` ran on 0 (a panic in a checked build).
CompactStartCompound(ch, ind) ==
    [reqs |-> <<WriteAll(<<ch>>, "open")>>, indent |-> ind, panic |-> FALSE]
\* a variant: the closing delimiter is always ']'
CompactEndCompoundBracket(ch, ind) ==
    [reqs |-> <<WriteAll(<<RBRACKET>>, "close")>>, indent |-> ind, panic |-> FALSE]
CompactEndCompound(ch, ind) ==
    [reqs |-> <<WriteAll(<<ch>>, "close")>>, indent |-> ind, panic |-> FALSE]
CompactKeySeparator == <<WriteAll(<<COLON>>, "keysep")>>
CompactItemSeparator(isFirst, ind) ==
    IF isFirst THEN <<>> ELSE <<WriteAll(<<COMMA>>, "sep")>>

PrettyFormatterNew == 0
PrettyStartCompound(ch, ind) ==
    [reqs |-> <<WriteAll(<<ch, LF>>, "open")>> \o Indent(ind + 1),
     indent |-> ind + 1, panic |-> FALSE]
\* a variant: the indentation is not decremented
PrettyEndCompoundKeepsIndent(ch, ind) ==
    [reqs |-> <<WriteOnce(<<LF>>, "nl")>> \o Indent(ind)
                 \o <<WriteAll(<<ch>>, "close")>>,
     indent |-> ind, panic |-> FALSE]
PrettyEndCompound(ch, ind) ==
    [reqs |-> <<WriteOnce(<<LF>>, "nl")>> \o Indent(ind - 1)
                 \o <<WriteAll(<<ch>>, "close")>>,
     indent |-> ind - 1, panic |-> ind = 0]
PrettyKeySeparator == <<WriteAll(<<COLON, SPACE>>, "keysep")>>
\* a variant: the result of the newline's write is dropped
PrettyItemSeparatorUnchecked(isFirst, ind) ==
    IF isFirst THEN <<>>
    ELSE <<[WriteOnce(<<LF>>, "nl") EXCEPT !.chk = FALSE]>> \o Indent(ind)
PrettyItemSeparator(isFirst, ind) ==
    IF isFirst THEN <<>> ELSE <<WriteOnce(<<LF>>, "nl")>> \o Indent(ind)

\* The Formatter trait, dispatched on the Serializer's F.
StartCompound(m, ch, ind) ==
    IF m = "compact" THEN CompactStartCompound(ch, ind) ELSE PrettyStartCompound(ch, ind)
EndCompound(m, ch, ind) ==
    IF m = "compact" THEN CompactEndCompound(ch, ind) ELSE PrettyEndCompound(ch, ind)
KeySeparator(m) == IF m = "compact" THEN CompactKeySeparator ELSE PrettyKeySeparator
ItemSeparator(m, isFirst, ind) ==
    IF m = "compact" THEN CompactItemSeparator(isFirst, ind)
    ELSE PrettyItemSeparator(isFirst, ind)

\* ---------------------------------------------------------- scalar text
\* {} of an unsigned integer: decimal digits, no leading zero.
RECURSIVE Dec(_)
Dec(n) == IF n < 10 THEN <<48 + n>> ELSE Dec(n \div 10) \o <<48 + (n % 10)>>
\* {} of a signed integer.
DisplayInt(i) == IF i < 0 THEN <<MINUS>> \o Dec(0 - i) ELSE Dec(i)
\* {:X}: uppercase hexadecimal digits, no padding.
HexDigit(d) == IF d < 10 THEN 48 + d ELSE 55 + d
RECURSIVE UpperHex(_)
UpperHex(n) == IF n < 16 THEN <<HexDigit(n)>> ELSE UpperHex(n \div 16) \o <<HexDigit(n % 16)>>
\* {} of an f64 [cls, neg, whole, frac]: NaN, inf, -inf, or the decimal
\* digits with a fraction only when there is one.
DisplayF64(f) ==
    IF f.cls = "nan" THEN NaNText
    ELSE IF f.cls = "inf" THEN (IF f.neg THEN <<MINUS>> ELSE <<>>) \o InfText
    ELSE (IF f.neg THEN <<MINUS>> ELSE <<>>) \o Dec(f.whole)
         \o (IF f.frac = <<>> THEN <<>> ELSE <<DOT>> \o f.frac)

VisitBoolReqs(v) == <<WriteAll(IF v THEN TrueText ELSE FalseText, "text")>>
VisitI64Reqs(v) == <<WriteFmt(DisplayInt(v), "text")>>
VisitU64Reqs(v) == <<WriteFmt(Dec(v), "text")>>
VisitF64Reqs(f) ==
    IF f.cls \in {"nan", "inf"} THEN <<WriteFmt(DisplayF64(f), "text")>>
    ELSE LET s == DisplayF64(f)
         IN <<WriteAll(s, "text")>>
            \o (IF DOT \in {s[i] : i \in 1..Len(s)} THEN <<>>
                ELSE <<WriteAll(<<DOT, 48>>, "text")>>)

HexPadBelow == 15
ControlBelow == 32
\* One arm of the match in visit_str.
EscapeByte(ch) ==
    IF ch = TAB THEN WriteAll(<<BACKSLASH, 116>>, "text")
    ELSE IF ch = LF THEN WriteAll(<<BACKSLASH, 110>>, "text")
    ELSE IF ch = CR THEN WriteAll(<<BACKSLASH, 114>>, "text")
    ELSE IF ch = QUOTE THEN WriteAll(<<BACKSLASH, QUOTE>>, "text")
    ELSE IF ch = BACKSLASH THEN WriteAll(<<BACKSLASH, BACKSLASH>>, "text")
    ELSE IF ch < HexPadBelow THEN WriteFmt(<<BACKSLASH, 48>> \o UpperHex(ch), "text")
    ELSE IF ch < ControlBelow THEN WriteFmt(<<BACKSLASH>> \o UpperHex(ch), "text")
    ELSE WriteAll(<<ch>>, "text")
VisitStrReqs(v) ==
    <<WriteAll(<<QUOTE>>, "text")>>
    \o [i \in 1..Len(v) |-> EscapeByte(v[i])]
    \o <<WriteAll(<<QUOTE>>, "text")>>

\* a variant: a bool key is written like a bool value
KeySerializeTakesBool(k) ==
    IF k.t = "Str" THEN [reqs |-> <<WriteAll(k.s, "key")>>, error |-> "none"]
    ELSE IF k.t = "Bool" THEN [reqs |-> VisitBoolReqs(k.b), error |-> "none"]
    ELSE [reqs |-> <<>>, error |-> "InvalidKey"]
\* KeySerializer: a str is written bare, every other visit_* is InvalidKey.
KeySerialize(k) ==
    IF k.t = "Str" THEN [reqs |-> <<WriteAll(k.s, "key")>>, error |-> "none"]
    ELSE [reqs |-> <<>>, error |-> "InvalidKey"]


\* ---------------------------------------------------------------- values
\* What a Serialize implementation hands to the serializer: the visit_*
\* method it calls and the argument. visit_seq and visit_map tell two
\* cases of visitor.len() apart: "Some0" is Some(0); "Else" is the other arm
\* of the match, Some(n) with n > 0 or None. A visitor hands over as many
\* items as it reported, so one that ends with none reported None.
NoValue == [t |-> "-"]
Bool(b) == [t |-> "Bool", b |-> b]
I64(i) == [t |-> "I64", i |-> i]
U64(u) == [t |-> "U64", u |-> u]
F64(cls, neg, whole, frac) ==
    [t |-> "F64", f |-> [cls |-> cls, neg |-> neg, whole |-> whole, frac |-> frac]]
Str(s) == [t |-> "Str", s |-> s]
Unit == [t |-> "Unit"]
None == [t |-> "None"]
Some(v) == [t |-> "Some", v |-> v]
Seq_(len) == [t |-> "Seq", len |-> len]
Map_(len) == [t |-> "Map", len |-> len]

LenHints == {"Some0", "Else"}
Containers == {Seq_(l) : l \in LenHints} \cup {Map_(l) : l \in LenHints}
Floats == {F64("nan", FALSE, 0, <<>>), F64("inf", FALSE, 0, <<>>),
           F64("inf", TRUE, 0, <<>>), F64("fin", FALSE, 1, <<>>),
           F64("fin", FALSE, 4, <<53>>), F64("fin", TRUE, 3, <<50>>)}
Scalars == {Bool(TRUE), Bool(FALSE), I64(0), I64(-34), U64(7), U64(120),
            Str(<<>>), Str(<<97, 44>>)} \cup Floats
Absents == {Unit, None, Some(None)}

\* 1 when v is unit or none, behind any number of Some
RECURSIVE Absent(_)
Absent(v) ==
    IF v.t \in {"Unit", "None"} THEN 1
    ELSE IF v.t = "Some" THEN Absent(v.v) ELSE 0

\* a root value of one encode
RootValues == Scalars \cup Absents \cup Containers \cup {Some(Bool(TRUE))}
\* an item a visitor hands over inside depth containers
Items(depth) ==
    {Bool(TRUE), None}
    \cup (IF depth < MaxDepth THEN Containers
          ELSE {Seq_("Some0"), Map_("Some0")})
\* a key a MapVisitor hands over, one of each kind
StrKeys == {Str(<<107>>)}
OtherKeys == {Bool(TRUE), I64(-34), U64(7), F64("fin", FALSE, 1, <<>>),
              Unit, None, Some(Str(<<107>>)), Seq_("Some0"), Map_("Else")}
Keys == StrKeys \cup OtherKeys

\* bytes of the strings handed to visit_str on their own: every byte below
\* 0x20, the quote, the backslash, and two that pass through
StrBytes == (0..31) \cup {QUOTE, BACKSLASH, 97, 126}
RECURSIVE StrsUpTo(_)
StrsUpTo(n) ==
    IF n = 0 THEN {<<>>}
    ELSE LET shorter == StrsUpTo(n - 1)
         IN shorter \cup {Append(s, b) : s \in {x \in shorter : Len(x) = n - 1}, b \in StrBytes}

\* ----------------------------------------------------------------- state
VARIABLES
    mode,      \* the Serializer's F: "compact" (to_writer) or "pretty" (to_writer_pretty)
    pending,   \* the value whose serialize(self) call is in flight, or NoValue
    stack,     \* the visit_seq / visit_map activations inside their loop
    first,     \* Serializer.first
    indent,    \* PrettyFormatter.indent
    out,       \* the bytes the sink has taken
    result,    \* "running", or what encode returned
    offered,   \* the bytes of every buffer handed to the sink
    writes,    \* the write calls made
    shorts,    \* the calls the sink answered Ok with fewer bytes than offered
    sinkErr,   \* the sink has returned Err
    afterErr,  \* the write calls made after the sink's first Err
    marks,     \* the container delimiters the sink has taken, in order
    open,      \* start_compound calls minus end_compound calls
    nodes,     \* the values the visitors have handed over
    absents,   \* the unit / none values handed to a serializer, as value or as key
    root,      \* the value given to to_writer / to_writer_pretty
    last       \* the handler that ran last and what it was given

vars == <<mode, pending, stack, first, indent, out, result, offered, writes,
          shorts, sinkErr, afterErr, marks, open, nodes, absents, root, last>>

Running == result = "running"
Top == stack[Len(stack)]
SetTop(f) == [stack EXCEPT ![Len(stack)] = f]
Pop == SubSeq(stack, 1, Len(stack) - 1)

\* op: the handler; isFirst: the flag it gave item_separator; idx: the
\* item's position in its container; depth: the containers around that
\* container; key: the kind of key; from: Len(out) when the handler began;
\* n, commas: the items of the container closed and the commas between them.
Ev(op, isFirst, idx, depth, key, n, commas) ==
    [op |-> op, first |-> isFirst, idx |-> idx, depth |-> depth, key |-> key,
     from |-> Len(out), n |-> n, commas |-> commas]

\* The sink answers the calls reqs as run.
Emit(reqs, run) ==
    /\ out' = out \o Accepted(reqs, run)
    /\ offered' = offered \o Offered(reqs, run)
    /\ writes' = writes + Len(run.acc)
    /\ shorts' = shorts + ShortsIn(reqs, run)
    /\ marks' = marks \o MarksIn(reqs, run)
    /\ sinkErr' = (sinkErr \/ run.ferr # 0)
    /\ afterErr' = afterErr + (IF sinkErr THEN Len(run.acc)
                               ELSE IF run.ferr = 0 THEN 0
                               ELSE Len(run.acc) - run.ferr)
Runs(reqs) == {run \in SinkRuns(reqs) : shorts + ShortsIn(reqs, run) <= MaxShort}

\* Serializer::with_formatter, and the value to_writer / to_writer_pretty
\* is about to serialize.
InitWith(values) ==
    /\ mode \in {"compact", "pretty"}
    /\ pending \in values
    /\ stack = <<>>
    /\ first = FALSE
    /\ indent = PrettyFormatterNew
    /\ out = <<>>
    /\ result = "running"
    /\ offered = <<>>
    /\ writes = 0
    /\ shorts = 0
    /\ sinkErr = FALSE
    /\ afterErr = 0
    /\ marks = <<>>
    /\ open = 0
    /\ nodes = 0
    /\ absents = Absent(pending)
    /\ root = pending
    /\ last = [op |-> "new", first |-> FALSE, idx |-> 0, depth |-> 0, key |-> "-",
               from |-> 0, n |-> 0, commas |-> 0]
Init == InitWith(RootValues)
InitStr == InitWith({Str(s) : s \in StrsUpTo(MaxStrLen)})


\* --------------------------------------------------------------- scalars
\* A visit_* that only writes: Ok(()) returns to the caller, an Err of the
\* sink is the encode's Error::IoError.
WriteScalar(op, reqs) ==
    \E run \in Runs(reqs) :
        /\ Emit(reqs, run)
        /\ result' = IF run.err THEN "IoError" ELSE result
        /\ pending' = IF run.err THEN pending ELSE NoValue
        /\ last' = Ev(op, FALSE, 0, Len(stack), "-", 0, 0)
        /\ UNCHANGED <<mode, root, stack, first, indent, open, nodes, absents>>

\* A visit_* that returns Err(SyntaxError(code, 0, 0, 0)) and writes nothing.
Fail(op, code) ==
    /\ result' = code
    /\ last' = Ev(op, FALSE, 0, Len(stack), "-", 0, 0)
    /\ UNCHANGED <<mode, root, pending, stack, first, indent, out, offered, writes,
                   shorts, sinkErr, afterErr, marks, open, nodes, absents>>

VisitBool == Running /\ pending.t = "Bool" /\ WriteScalar("visit_bool", VisitBoolReqs(pending.b))
VisitI64 == Running /\ pending.t = "I64" /\ WriteScalar("visit_i64", VisitI64Reqs(pending.i))
VisitU64 == Running /\ pending.t = "U64" /\ WriteScalar("visit_u64", VisitU64Reqs(pending.u))
VisitF64 == Running /\ pending.t = "F64" /\ WriteScalar("visit_f64", VisitF64Reqs(pending.f))
VisitStr == Running /\ pending.t = "Str" /\ WriteScalar("visit_str", VisitStrReqs(pending.s))
VisitUnit == Running /\ pending.t = "Unit" /\ Fail("visit_unit", "UnrepresentableValue")
\* a variant: none is written as nothing
VisitNoneAsNothing ==
    /\ Running /\ pending.t = "None"
    /\ pending' = NoValue
    /\ last' = Ev("visit_none_skipped", FALSE, 0, Len(stack), "-", 0, 0)
    /\ UNCHANGED <<mode, root, stack, first, indent, out, result, offered, writes,
                   shorts, sinkErr, afterErr, marks, open, nodes, absents>>
VisitNone == Running /\ pending.t = "None" /\ Fail("visit_none", "UnrepresentableValue")
\* visit_some: value.serialize(self)
VisitSome ==
    /\ Running /\ pending.t = "Some"
    /\ pending' = pending.v
    /\ last' = Ev("visit_some", FALSE, 0, Len(stack), "-", 0, 0)
    /\ UNCHANGED <<mode, root, stack, first, indent, out, result, offered, writes,
                   shorts, sinkErr, afterErr, marks, open, nodes, absents>>

\* ------------------------------------------------------------ containers
EmptyReqs(opening, closing) == <<WriteAll(<<opening, closing>>, "empty")>>

\* visit_seq / visit_map up to the loop: Some(0) writes both delimiters at
\* once; anything else is start_compound, first = true, and the loop.
VisitContainer(kind, opening, closing) ==
    IF pending.len = "Some0"
    THEN WriteScalar("visit_" \o kind \o "_empty", EmptyReqs(opening, closing))
    ELSE LET fmt == StartCompound(mode, opening, indent) IN
         \E run \in Runs(fmt.reqs) :
            /\ Emit(fmt.reqs, run)
            /\ indent' = fmt.indent
            /\ open' = open + 1
            /\ result' = IF run.err THEN "IoError" ELSE result
            /\ first' = IF run.err THEN first ELSE TRUE
            /\ stack' = IF run.err THEN stack
                        ELSE Append(stack, [kind |-> kind, phase |-> "loop", n |-> 0,
                                            len |-> pending.len, commas |-> 0,
                                            start |-> Len(out)])
            /\ pending' = IF run.err THEN pending ELSE NoValue
            /\ last' = Ev("visit_" \o kind, FALSE, 0, Len(stack), "-", 0, 0)
            /\ UNCHANGED <<mode, root, nodes, absents>>
VisitSeq == Running /\ pending.t = "Seq" /\ VisitContainer("seq", LBRACKET, RBRACKET)
VisitMap == Running /\ pending.t = "Map" /\ VisitContainer("map", LBRACE, RBRACE)

InLoop(kind) ==
    /\ Running /\ pending = NoValue /\ stack # <<>>
    /\ Top.kind = kind /\ Top.phase = "loop"
Returned(kind) ==
    /\ Running /\ pending = NoValue /\ stack # <<>>
    /\ Top.kind = kind /\ Top.phase = "elt"

\* visitor.visit(self) hands over the next item: visit_seq_elt up to
\* value.serialize(self).
VisitSeqElt ==
    /\ InLoop("seq") /\ nodes < MaxNodes
    /\ \E v \in Items(Len(stack)) :
       LET reqs == ItemSeparator(mode, first, indent) IN
       \E run \in Runs(reqs) :
          /\ Emit(reqs, run)
          /\ result' = IF run.err THEN "IoError" ELSE result
          /\ pending' = IF run.err THEN pending ELSE v
          /\ stack' = SetTop([Top EXCEPT !.phase = "elt",
                                         !.commas = @ + CommasIn(reqs, run)])
          /\ nodes' = nodes + 1
          /\ absents' = absents + (IF run.err THEN 0 ELSE Absent(v))
          /\ last' = Ev("visit_seq_elt", first, Top.n + 1, Len(stack) - 1, "-", 0, 0)
          /\ UNCHANGED <<mode, root, first, indent, open>>

\* a variant: first is left as the item's serialize left it
EltReturnKeepsFirst(op) ==
    /\ stack' = SetTop([Top EXCEPT !.phase = "loop", !.n = @ + 1])
    /\ last' = Ev(op, first, Top.n + 1, Len(stack) - 1, "-", 0, 0)
    /\ UNCHANGED <<mode, root, pending, first, indent, out, result, offered, writes,
                   shorts, sinkErr, afterErr, marks, open, nodes, absents>>
\* visit_seq_elt / visit_map_elt after value.serialize(self) returned Ok.
EltReturn(op) ==
    /\ first' = FALSE
    /\ stack' = SetTop([Top EXCEPT !.phase = "loop", !.n = @ + 1])
    /\ last' = Ev(op, first, Top.n + 1, Len(stack) - 1, "-", 0, 0)
    /\ UNCHANGED <<mode, root, pending, indent, out, result, offered, writes, shorts,
                   sinkErr, afterErr, marks, open, nodes, absents>>
VisitSeqEltReturn == Returned("seq") /\ EltReturn("visit_seq_elt_return")
VisitMapEltReturn == Returned("map") /\ EltReturn("visit_map_elt_return")

\* visitor.visit(self) hands over the next pair: visit_map_elt up to
\* value.serialize(self); the key goes through the KeySerializer.
VisitMapElt ==
    /\ InLoop("map") /\ nodes < MaxNodes
    /\ \E k \in Keys, v \in Items(Len(stack)) :
       LET key == KeySerialize(k)
           sep == ItemSeparator(mode, first, indent)
           reqs == sep \o key.reqs
                   \o (IF key.error = "none" THEN KeySeparator(mode) ELSE <<>>)
       IN
       \E run \in Runs(reqs) :
          /\ Emit(reqs, run)
          /\ result' = IF run.err THEN "IoError"
                       ELSE IF key.error # "none" THEN key.error ELSE result
          /\ pending' = IF run.err \/ key.error # "none" THEN pending ELSE v
          /\ stack' = SetTop([Top EXCEPT !.phase = "elt",
                                         !.commas = @ + CommasIn(reqs, run)])
          /\ nodes' = nodes + 1
          /\ absents' = absents + (IF run.err THEN 0
                                    ELSE IF key.error # "none" THEN Absent(k)
                                    ELSE Absent(v))
          /\ last' = Ev("visit_map_elt", first, Top.n + 1, Len(stack) - 1, k.t, 0, 0)
          /\ UNCHANGED <<mode, root, first, indent, open>>

\* visitor.visit(self) returned None: end_compound, and visit_seq /
\* visit_map returns.
EndContainer(op, closing) ==
    /\ LET fmt == EndCompound(mode, closing, indent) IN
       IF fmt.panic
       THEN /\ result' = "Panic"
            /\ last' = Ev(op, FALSE, 0, Len(stack) - 1, "-", Top.n, Top.commas)
            /\ UNCHANGED <<mode, root, pending, stack, first, indent, out, offered, writes,
                           shorts, sinkErr, afterErr, marks, open, nodes, absents>>
       ELSE \E run \in Runs(fmt.reqs) :
            /\ Emit(fmt.reqs, run)
            /\ indent' = fmt.indent
            /\ open' = open - 1
            /\ result' = IF run.err THEN "IoError" ELSE result
            /\ stack' = IF run.err THEN stack ELSE Pop
            /\ last' = [Ev(op, FALSE, 0, Len(stack) - 1, "-", Top.n, Top.commas)
                           EXCEPT !.from = Top.start]
            /\ UNCHANGED <<mode, root, pending, first, nodes, absents>>
VisitSeqEnd == InLoop("seq") /\ EndContainer("visit_seq_end", RBRACKET)
VisitMapEnd == InLoop("map") /\ EndContainer("visit_map_end", RBRACE)

\* value.serialize(&mut serializer) returned Ok(()) to to_writer /
\* to_writer_pretty.
Finish ==
    /\ Running /\ pending = NoValue /\ stack = <<>>
    /\ result' = "Ok"
    /\ UNCHANGED <<mode, root, pending, stack, first, indent, out, offered, writes,
                   shorts, sinkErr, afterErr, marks, open, nodes, absents, last>>

Next ==
    \/ VisitBool \/ VisitI64 \/ VisitU64 \/ VisitF64 \/ VisitStr
    \/ VisitUnit \/ VisitNone \/ VisitSome
    \/ VisitSeq \/ VisitMap
    \/ VisitSeqElt \/ VisitSeqEltReturn \/ VisitSeqEnd
    \/ VisitMapElt \/ VisitMapEltReturn \/ VisitMapEnd
    \/ Finish
Spec == Init /\ [][Next]_vars

\* visit_str on its own, on every string over StrBytes
NextStr == VisitStr \/ Finish
SpecStr == InitStr /\ [][NextStr]_vars


\* ---------------------------------------------------------------- claims
Spaces(n) == [i \in 1..n |-> SPACE]
EndsWith(s, t) == Len(s) >= Len(t) /\ SubSeq(s, Len(s) - Len(t) + 1, Len(s)) = t
\* the bytes the sink took during the handler that ran last (for a
\* container that closed: since it opened)
Written == SubSeq(out, last.from + 1, Len(out))
EltOps == {"visit_seq_elt", "visit_map_elt"}
EndOps == {"visit_seq_end", "visit_map_end"}
NonStringKey == last.op = "visit_map_elt" /\ last.key # "Str"

\* C1 (as stated): a mapping entry whose key is not a string, first or
\* later, in either mode, fails with InvalidKey and the sink holds exactly
\* the bytes it held when the previous sibling (or the opening) was written.
C1_InvalidKeyWritesNothing ==
    (NonStringKey /\ ~sinkErr) => (result = "InvalidKey" /\ Written = <<>>)

\* C1 (amended): once the item separator of the entry is written, a
\* non-string key fails with InvalidKey and no key, key separator or value
\* byte is written. The sink is unchanged for the first entry of a mapping;
\* for a later entry it holds the item separator in addition: "," in
\* compact mode, in pretty mode the indentation after the newline, or the
\* indentation alone when the sink took no byte of the newline.
C1_InvalidKeyWritesOnlySeparator ==
    (NonStringKey /\ ~sinkErr) =>
        /\ result = "InvalidKey"
        /\ last.idx = 1 => Written = <<>>
        /\ (last.idx > 1 /\ mode = "compact") => Written = <<COMMA>>
        /\ (last.idx > 1 /\ mode = "pretty") =>
              Written \in {<<LF>> \o Spaces(2 * (last.depth + 1)),
                           Spaces(2 * (last.depth + 1))}
C1_Witness ==
    /\ NonStringKey /\ last.key = "Seq" /\ last.idx = 2 /\ last.depth = 1
    /\ mode = "pretty" /\ result = "InvalidKey" /\ shorts = 0 /\ ~sinkErr

\* C2 (as stated): a value with a unit / none anywhere in it, as root,
\* element, mapping value or mapping key, fails with UnrepresentableValue.
C2_AbsentIsUnrepresentable ==
    (absents > 0 /\ ~Running /\ ~sinkErr) => result = "UnrepresentableValue"

\* C2 (amended): an encode that was handed a unit / none never returns Ok.
\* In value position (root, sequence element, mapping value, behind Some,
\* at any depth) it fails with UnrepresentableValue; in key position it
\* fails with InvalidKey, like every other key that is not a string.
C2_AbsentNeverEncodes ==
    /\ result = "Ok" => absents = 0
    /\ last.op \in {"visit_unit", "visit_none"} => result = "UnrepresentableValue"
    /\ (absents > 0 /\ ~Running /\ ~sinkErr) =>
          result = (IF NonStringKey THEN "InvalidKey" ELSE "UnrepresentableValue")
C2_Witness ==
    /\ result = "UnrepresentableValue" /\ last.op = "visit_none"
    /\ Len(stack) = 2 /\ stack[1].kind = "seq" /\ stack[2].kind = "map"
C2_WitnessKey ==
    result = "InvalidKey" /\ last.key = "None" /\ absents = 1

\* C3: visit_str writes every byte below 0x20 other than tab, LF and CR as
\* a backslash and exactly two uppercase hexadecimal digits, zero-padded.
TwoHexDigits(b) == <<BACKSLASH, HexDigit(b \div 16), HexDigit(b % 16)>>
C3_Expected(b) ==
    IF b < 32 /\ b \notin {TAB, LF, CR} THEN TwoHexDigits(b) ELSE EscapeByte(b).buf
C3_ControlBytesAsTwoHexDigits ==
    (root.t = "Str" /\ result = "Ok") =>
        out = <<QUOTE>> \o Flatten([i \in 1..Len(root.s) |-> C3_Expected(root.s[i])])
              \o <<QUOTE>>

\* C4: a sequence or mapping with no items is written as exactly "[]" or
\* "{}", in both modes, at any depth, whether its visitor reported Some(0)
\* or no length.
C4_EmptyContainerIsBare ==
    /\ (last.op = "visit_seq_empty" /\ ~sinkErr) => Written = <<LBRACKET, RBRACKET>>
    /\ (last.op = "visit_map_empty" /\ ~sinkErr) => Written = <<LBRACE, RBRACE>>
    /\ (last.op = "visit_seq_end" /\ last.n = 0 /\ ~sinkErr /\ shorts = 0) =>
          Written = <<LBRACKET, RBRACKET>>
    /\ (last.op = "visit_map_end" /\ last.n = 0 /\ ~sinkErr /\ shorts = 0) =>
          Written = <<LBRACE, RBRACE>>

\* C5: after an encode that returned Ok the container delimiters written
\* are as many closing as opening ones, and properly nested.
Closer(b) == IF b = LBRACKET THEN RBRACKET ELSE RBRACE
RECURSIVE Nested(_, _)
\* ms: the delimiters left to read; need: the closers owed, innermost first
Nested(ms, need) ==
    IF ms = <<>> THEN need = <<>>
    ELSE IF Head(ms) \in {LBRACKET, LBRACE}
         THEN Nested(Tail(ms), <<Closer(Head(ms))>> \o need)
         ELSE need # <<>> /\ Head(need) = Head(ms) /\ Nested(Tail(ms), Tail(need))
CountOf(ms, bs) == Cardinality({i \in 1..Len(ms) : ms[i] \in bs})
C5_DelimitersBalanced ==
    result = "Ok" =>
        /\ CountOf(marks, {LBRACKET, LBRACE}) = CountOf(marks, {RBRACKET, RBRACE})
        /\ Nested(marks, <<>>)
C5_Witness ==
    /\ result = "Ok" /\ Len(marks) = 6
    /\ marks[2] = LBRACE /\ marks[3] = LBRACKET /\ marks[4] = RBRACKET

\* C6: the first write call the sink fails ends the encode with
\* Error::IoError, and no write call is made after it.
C6_FirstSinkErrorAborts ==
    /\ afterErr = 0
    /\ sinkErr <=> result = "IoError"
C6_Witness ==
    /\ result = "IoError" /\ mode = "pretty" /\ last.op = "visit_seq_end"
    /\ last.depth = 1 /\ writes >= 6


\* C7: pretty mode, a non-empty container with d containers around it: the
\* opening delimiter is followed by a newline, every item or key starts on
\* its own line after exactly 2*(d+1) spaces, no comma is written between
\* items, a key is followed by ": ", and the closing delimiter is on its
\* own line after exactly 2*d spaces.
ItemIndent == <<LF>> \o Spaces(2 * (last.depth + 1))
OpeningOf(op) == IF op \in {"visit_seq_elt", "visit_seq_end"} THEN LBRACKET ELSE LBRACE
ClosingOf(op) == IF op = "visit_seq_end" THEN RBRACKET ELSE RBRACE
PrettyLayout ==
    /\ (last.op = "visit_seq_elt" /\ result = "running") =>
          /\ EndsWith(out, ItemIndent)
          /\ last.idx = 1 => EndsWith(out, <<OpeningOf(last.op)>> \o ItemIndent)
          /\ COMMA \notin {Written[i] : i \in 1..Len(Written)}
    /\ (last.op = "visit_map_elt" /\ result = "running") =>
          \E k \in StrKeys :
             /\ EndsWith(out, ItemIndent \o k.s \o <<COLON, SPACE>>)
             /\ last.idx = 1 =>
                   EndsWith(out, <<OpeningOf(last.op)>> \o ItemIndent
                                 \o k.s \o <<COLON, SPACE>>)
             /\ COMMA \notin {Written[i] : i \in 1..Len(Written)}
    /\ (last.op \in EndOps /\ last.n >= 1 /\ result # "IoError") =>
          EndsWith(out, <<LF>> \o Spaces(2 * last.depth) \o <<ClosingOf(last.op)>>)
\* (stated for the encodes that were handed no unit / none, which can go
\* on to return Ok)
C7_PrettyLayout == (mode = "pretty" /\ absents = 0) => PrettyLayout
\* the same layout, for a sink that takes every byte it is offered
PrettyLayoutWhenSinkTakesAll == (mode = "pretty" /\ shorts = 0) => PrettyLayout
PrettyLayoutReached ==
    /\ mode = "pretty" /\ shorts = 0 /\ result = "Ok" /\ last.op = "visit_seq_end"
    /\ last.n = 2 /\ Len(marks) = 4 /\ marks[2] = LBRACE

\* C8: item_separator is given is_first = true for exactly the first item
\* of every non-empty container and false for every later one, whatever
\* the earlier items were; compact output has n-1 commas between the n
\* items of a container, none after the opening or before the closing.
FrameCommas(f) == IF f.phase = "elt" THEN f.n ELSE Max(f.n - 1, 0)
C8_FirstIsPerContainer ==
    /\ last.op \in EltOps => (last.first <=> last.idx = 1)
    /\ (stack # <<>> /\ Top.phase = "loop" /\ Running) => (first <=> Top.n = 0)
    /\ (mode = "compact" /\ ~sinkErr) =>
          /\ \A i \in 1..Len(stack) : stack[i].commas = FrameCommas(stack[i])
          /\ last.op \in EndOps =>
                /\ last.commas = Max(last.n - 1, 0)
                /\ Written[2] # COMMA
                /\ Written[Len(Written) - 1] # COMMA
C8_Witness ==
    /\ mode = "compact" /\ last.op = "visit_seq_elt" /\ last.idx = 2 /\ ~last.first
    /\ Running /\ Len(stack) = 1
    /\ out = <<LBRACKET, LBRACKET>> \o TrueText \o <<RBRACKET, COMMA>>

\* C9: in pretty mode the indentation depth is the number of containers
\* opened by start_compound and not closed by end_compound, end_compound
\* never runs at depth 0, and the depth is 0 after an encode that returned Ok.
C9_IndentIsOpenContainers ==
    mode = "pretty" =>
        /\ indent = open
        /\ indent >= 0
        /\ result # "Panic"
        /\ Running => indent = Len(stack)
        /\ result = "Ok" => indent = 0
C9_Witness ==
    /\ mode = "pretty" /\ result = "Ok" /\ last.op = "visit_map_end"
    /\ Len(marks) = 4 /\ marks[2] = LBRACKET /\ marks[3] = RBRACKET /\ last.n = 2

\* C10: after an encode that returned Ok the sink has taken every byte of
\* every buffer the engine offered it, in order.
C10_OkMeansEveryByteTaken == result = "Ok" => out = offered

====
